---- MODULE Spec2Model ----
(***************************************************************************)
(* Model of src/api.py: the /getCurrentWeather endpoint.  A request body   *)
(* is validated by cityParameters, one GET is sent to the weather API      *)
(* through a session whose adapter retries (urllib3 Retry), and the        *)
(* upstream answer is reformatted by construct_response.                   *)
(*                                                                         *)
(* Text is a sequence of one-character strings, so that lower(), str()     *)
(* and concatenation are computed.  An exception that no handler of        *)
(* api.py catches leaves the endpoint and is answered by the framework     *)
(* with a plain 500.                                                       *)
(***************************************************************************)
EXTENDS Integers, Sequences, FiniteSets, TLC

\* Number of requests the process serves in one run of the model.
MaxRequests == 2

----------------------------------------------------------------------------
\* Text

UpperCase == <<"A","B","C","D","E","F","G","H","I","J","K","L","M",
               "N","O","P","Q","R","S","T","U","V","W","X","Y","Z">>
LowerCase == <<"a","b","c","d","e","f","g","h","i","j","k","l","m",
               "n","o","p","q","r","s","t","u","v","w","x","y","z">>

LowerChar(c) ==
    IF \E i \in 1..Len(UpperCase) : UpperCase[i] = c
    THEN LowerCase[CHOOSE i \in 1..Len(UpperCase) : UpperCase[i] = c]
    ELSE c

\* str.lower()
lower(s) == [i \in 1..Len(s) |-> LowerChar(s[i])]

T_json   == <<"j","s","o","n">>
T_xml    == <<"x","m","l">>
T_Paris  == <<"P","a","r","i","s">>
T_PARIS  == <<"P","A","R","I","S">>
T_paris  == <<"p","a","r","i","s">>
T_Rome   == <<"R","o","m","e">>
T_France == <<"F","r","a","n","c","e">>

Digits == <<"0","1","2","3","4","5","6","7","8","9">>

RECURSIVE NatStr(_)
NatStr(n) == IF n < 10 THEN <<Digits[n + 1]>>
             ELSE NatStr(n \div 10) \o <<Digits[(n % 10) + 1]>>

IntStr(n) == IF n < 0 THEN <<"-">> \o NatStr(-n) ELSE NatStr(n)

\* JSON scalars: an int n, a float n.d (one fractional digit), a string s.
JInt(n)      == [t |-> "int",   n |-> n, d |-> 0, s |-> <<>>]
JFloat(n, d) == [t |-> "float", n |-> n, d |-> d, s |-> <<>>]
JStr(s)      == [t |-> "str",   n |-> 0, d |-> 0, s |-> s]

\* Python's str() of a JSON scalar.
str(v) == CASE v.t = "str"   -> v.s
            [] v.t = "int"   -> IntStr(v.n)
            [] v.t = "float" -> IntStr(v.n) \o <<".">> \o <<Digits[v.d + 1]>>

----------------------------------------------------------------------------
\* Module-level configuration

API_KEY == "7679b027b85c46c7b40133852230703"

retry_strategy == [total |-> 5, status_forcelist |-> {500, 503, 504},
                   backoff_factor |-> 2]

\* urllib3 Retry.RETRY_AFTER_STATUS_CODES, honoured by the default
\* respect_retry_after_header of the Retry built in api.py.
RETRY_AFTER_STATUS_CODES == {413, 429, 503}

\* Retry.is_retry for the GET the session sends.
is_retry(status, has_retry_after, total) ==
    \/ status \in retry_strategy.status_forcelist
    \/ total # 0 /\ has_retry_after /\ status \in RETRY_AFTER_STATUS_CODES

\* Retry.increment: one retry is consumed.
increment(total) == total - 1

is_exhausted_at_zero(total) == total <= 0

\* Retry.is_exhausted
is_exhausted(total) == total < 0

----------------------------------------------------------------------------
\* Responses sent to the client

HTTPException(status_code, detail) ==
    [status |-> status_code, media_type |-> "application/json",
     content |-> [detail |-> detail]]

\* An exception nothing in api.py catches: the framework's 500.
ServerError ==
    [status |-> 500, media_type |-> "text/plain",
     content |-> [detail |-> <<"unhandled">>]]

NoResponse ==
    [status |-> 0, media_type |-> "", content |-> [detail |-> <<>>]]

----------------------------------------------------------------------------
\* cityParameters

check_if_string_is_empty_accepting(city) ==
    [ok |-> TRUE, value |-> city, exc |-> NoResponse]

\* validator("city")
check_if_string_is_empty(city) ==
    IF city = <<>>
    THEN [ok |-> FALSE, value |-> city,
          exc |-> HTTPException(400, <<"The city string is empty">>)]
    ELSE [ok |-> TRUE, value |-> city, exc |-> NoResponse]

allowed_output_format == {T_json, T_xml}

check_if_output_format_is_valid_accepting(output_format) ==
    [ok |-> TRUE, value |-> lower(output_format), exc |-> NoResponse]

check_if_output_format_is_valid_keeping_case(output_format) ==
    IF lower(output_format) \notin allowed_output_format
    THEN [ok |-> FALSE, value |-> lower(output_format),
          exc |-> HTTPException(400, <<"Invalid output format">>
                                     \o lower(output_format))]
    ELSE [ok |-> TRUE, value |-> output_format, exc |-> NoResponse]

\* validator("output_format"): the value kept is the lowercased one.
check_if_output_format_is_valid(output_format) ==
    IF lower(output_format) \notin allowed_output_format
    THEN [ok |-> FALSE, value |-> lower(output_format),
          exc |-> HTTPException(400, <<"Invalid output format">>
                                     \o lower(output_format))]
    ELSE [ok |-> TRUE, value |-> lower(output_format), exc |-> NoResponse]

\* Validation of the request body: the fields in declaration order, the
\* first HTTPException raised by a validator leaves the validation.
cityParameters(body) ==
    LET c == check_if_string_is_empty(body.city)
        f == check_if_output_format_is_valid(body.output_format)
    IN  IF ~c.ok THEN [ok |-> FALSE, exc |-> c.exc,
                       params |-> [city |-> <<>>, output_format |-> <<>>]]
        ELSE IF ~f.ok THEN [ok |-> FALSE, exc |-> f.exc,
                            params |-> [city |-> <<>>, output_format |-> <<>>]]
        ELSE [ok |-> TRUE, exc |-> NoResponse,
              params |-> [city |-> c.value, output_format |-> f.value]]

----------------------------------------------------------------------------
\* Upstream payloads

\* A JSON value that can be subscripted by key (a mapping) or cannot.
JsonObject(members) == [isobj |-> TRUE, members |-> members]
JsonNonObject       == [isobj |-> FALSE, members |-> <<>>]

\* An XML element: tag, text and child elements in document order.
Elem(tag, text, children) == [tag |-> tag, text |-> text, children |-> children]

NoElem == Elem("", <<>>, <<>>)

\* A response body: text that parses as JSON, as XML, or as neither.
JsonBody(j) == [fmt |-> "json", json |-> j, xml |-> NoElem]
XmlBody(x)  == [fmt |-> "xml", json |-> JsonNonObject, xml |-> x]
OtherBody   == [fmt |-> "other", json |-> JsonNonObject, xml |-> NoElem]

TempValues == {JInt(21), JFloat(-3, 5)}

LocationFull == [lat |-> JFloat(1, 0), lon |-> JFloat(2, 0),
                 name |-> JStr(T_Paris), country |-> JStr(T_France)]

CurrentValues ==
    {JsonNonObject, JsonObject(<<>>)}
        \cup {JsonObject([k \in {"temp_c"} |-> t]) : t \in TempValues}

LocationValues ==
    {JsonNonObject}
        \cup {JsonObject([k \in K |-> LocationFull[k]]) :
                 K \in SUBSET {"lat", "lon", "name", "country"}}

JsonDocs ==
    {JsonNonObject}
        \cup {JsonObject([k \in K |-> IF k = "current" THEN c ELSE l]) :
                 K \in SUBSET {"current", "location"},
                 c \in CurrentValues, l \in LocationValues}

Opt(S) == {<<>>} \cup {<<e>> : e \in S}

LocationElems ==
    {Elem("location", <<>>, n \o la \o lo) :
        n  \in Opt({Elem("name", s, <<>>) : s \in {T_Paris, T_PARIS, T_Rome}}),
        la \in Opt({Elem("lat", <<"1", ".", "0">>, <<>>)}),
        lo \in Opt({Elem("lon", <<"2", ".", "0">>, <<>>)})}

CurrentElems ==
    {Elem("current", <<>>, t) :
        t \in Opt({Elem("temp_c", s, <<>>) :
                      s \in {<<"2", "1", ".", "0">>, <<"-", "3", ".", "5">>}})}

XmlDocs ==
    {Elem("root", <<>>, l \o c) :
        l \in Opt(LocationElems), c \in Opt(CurrentElems)}

Bodies == {JsonBody(j) : j \in JsonDocs} \cup {XmlBody(x) : x \in XmlDocs}
              \cup {OtherBody}

\* What one attempt against the upstream can end in: a response, or no
\* response at all (kind "error": the connection failed).
ErrorStatuses == {400, 401, 404, 429, 500, 502, 503, 504}

\* The complete documents of the two formats.
FullJson ==
    JsonObject([k \in {"current", "location"} |->
                  IF k = "current" THEN JsonObject([t \in {"temp_c"} |-> JInt(21)])
                  ELSE JsonObject(LocationFull)])

FullXml ==
    Elem("root", <<>>,
         <<Elem("location", <<>>,
                <<Elem("name", T_Paris, <<>>),
                  Elem("lat", <<"1", ".", "0">>, <<>>),
                  Elem("lon", <<"2", ".", "0">>, <<>>)>>),
           Elem("current", <<>>, <<Elem("temp_c", <<"2", "1", ".", "0">>, <<>>)>>)>>)

\* 200 with every body; 203, a success that is not 200, with the complete
\* documents; the error statuses, whose bodies are only logged.
Outcomes ==
    {[kind |-> "response", status |-> 200, retry_after |-> FALSE, body |-> b] :
        b \in Bodies}
    \cup {[kind |-> "response", status |-> 203, retry_after |-> FALSE, body |-> b] :
        b \in {JsonBody(FullJson), XmlBody(FullXml), OtherBody}}
    \cup {[kind |-> "response", status |-> st, retry_after |-> FALSE,
           body |-> OtherBody] : st \in ErrorStatuses}
    \cup {[kind |-> "response", status |-> 429, retry_after |-> TRUE,
           body |-> OtherBody]}
    \cup {[kind |-> "error", status |-> 0, retry_after |-> FALSE,
           body |-> OtherBody]}

NoOutcome == [kind |-> "none", status |-> 0, retry_after |-> FALSE,
              body |-> OtherBody]

----------------------------------------------------------------------------
\* construct_response, JSON path

\* json_response[k1][k2]: KeyError for a missing key, TypeError when the
\* value subscripted is no mapping.
Subscript2(j, k1, k2) ==
    IF ~j.isobj THEN [exc |-> "TypeError", v |-> JStr(<<>>)]
    ELSE IF k1 \notin DOMAIN j.members THEN [exc |-> "KeyError", v |-> JStr(<<>>)]
    ELSE LET m == j.members[k1]
         IN  IF ~m.isobj THEN [exc |-> "TypeError", v |-> JStr(<<>>)]
             ELSE IF k2 \notin DOMAIN m.members
                  THEN [exc |-> "KeyError", v |-> JStr(<<>>)]
             ELSE [exc |-> "", v |-> m.members[k2]]

json_output_blank_city(city) ==
    [Weather |-> JStr(<<>>), Latitude |-> JStr(<<>>),
     Longitude |-> JStr(<<>>), City |-> JStr(<<>>)]

json_output_init(city) ==
    [Weather |-> JStr(<<>>), Latitude |-> JStr(<<>>),
     Longitude |-> JStr(<<>>), City |-> JStr(city)]

with_suffix_no_space(text) == text \o <<"C">>

\* text + " C"
with_suffix(text) == text \o <<" ", "C">>

\* The body of the try block: four assignments in order, left at the first
\* exception with the assignments made so far kept.
json_try(json_output, j) ==
    LET w  == Subscript2(j, "current", "temp_c")
        la == Subscript2(j, "location", "lat")
        lo == Subscript2(j, "location", "lon")
        nm == Subscript2(j, "location", "name")
        co == Subscript2(j, "location", "country")
        o1 == [json_output EXCEPT !.Weather = JStr(with_suffix(str(w.v)))]
        o2 == [o1 EXCEPT !.Latitude = la.v]
        o3 == [o2 EXCEPT !.Longitude = lo.v]
        o4 == [o3 EXCEPT !.City = JStr(str(nm.v) \o <<" ">> \o str(co.v))]
    IN  IF w.exc # "" THEN [exc |-> w.exc, out |-> json_output]
        ELSE IF la.exc # "" THEN [exc |-> la.exc, out |-> o1]
        ELSE IF lo.exc # "" THEN [exc |-> lo.exc, out |-> o2]
        ELSE IF nm.exc # "" THEN [exc |-> nm.exc, out |-> o3]
        ELSE IF co.exc # "" THEN [exc |-> co.exc, out |-> o3]
        ELSE [exc |-> "", out |-> o4]

JSONResponse(status_code, content) ==
    [status |-> status_code, media_type |-> "application/json",
     content |-> content]

construct_json(city, response) ==
    IF response.body.fmt # "json" THEN ServerError
    ELSE IF response.status = 200
    THEN LET r == json_try(json_output_init(city), response.body.json)
         IN  IF r.exc \in {"", "KeyError"} THEN JSONResponse(200, r.out)
             ELSE ServerError
    ELSE JSONResponse(200, json_output_init(city))

----------------------------------------------------------------------------
\* construct_response, XML path

HasChild(el, tag) == \E i \in 1..Len(el.children) : el.children[i].tag = tag

\* Element.find(tag): the first child with that tag (None when HasChild is
\* false; the callers test HasChild first).
find(el, tag) ==
    el.children[CHOOSE i \in 1..Len(el.children) :
                    /\ el.children[i].tag = tag
                    /\ \A j \in 1..(i - 1) : el.children[j].tag # tag]

\* xml_response.find(a).find(b).text: AttributeError when either find gives
\* None.
FindText(root, a, b) ==
    IF ~HasChild(root, a) THEN [exc |-> "AttributeError", v |-> <<>>]
    ELSE IF ~HasChild(find(root, a), b)
         THEN [exc |-> "AttributeError", v |-> <<>>]
    ELSE [exc |-> "", v |-> find(find(root, a), b).text]

\* The text of an element of the output document: None, or a string.
None    == <<>>
Text(s) == <<s>>

\* root with its four SubElements in creation order; City is given no text.
xml_output_init ==
    <<[tag |-> "Temperature", text |-> Text(<<>>)],
      [tag |-> "City",        text |-> None],
      [tag |-> "Latitude",    text |-> Text(<<>>)],
      [tag |-> "Longitude",   text |-> Text(<<>>)]>>

SetText(doc, tag, s) ==
    [i \in 1..Len(doc) |->
        IF doc[i].tag = tag THEN [doc[i] EXCEPT !.text = Text(s)] ELSE doc[i]]

names_match_always(name, city) == TRUE

\* location/name .text.lower() == city.lower()
names_match(name, city) == lower(name) = lower(city)

xml_try_swapped(xml_output, x) ==
    LET nm == FindText(x, "location", "name")
        tc == FindText(x, "current", "temp_c")
        lo == FindText(x, "location", "lon")
        la == FindText(x, "location", "lat")
        o1 == SetText(xml_output, "City", nm.v)
        o2 == SetText(o1, "Temperature", with_suffix(tc.v))
        o3 == SetText(o2, "Longitude", la.v)
        o4 == SetText(o3, "Latitude", lo.v)
    IN  IF nm.exc # "" THEN xml_output
        ELSE IF tc.exc # "" THEN o1
        ELSE IF lo.exc # "" THEN o2
        ELSE IF la.exc # "" THEN o3
        ELSE o4

\* The body of the try block: City, Temperature, Longitude, Latitude in
\* that order, left at the first AttributeError (which is caught).
xml_try(xml_output, x) ==
    LET nm == FindText(x, "location", "name")
        tc == FindText(x, "current", "temp_c")
        lo == FindText(x, "location", "lon")
        la == FindText(x, "location", "lat")
        o1 == SetText(xml_output, "City", nm.v)
        o2 == SetText(o1, "Temperature", with_suffix(tc.v))
        o3 == SetText(o2, "Longitude", lo.v)
        o4 == SetText(o3, "Latitude", la.v)
    IN  IF nm.exc # "" THEN xml_output
        ELSE IF tc.exc # "" THEN o1
        ELSE IF lo.exc # "" THEN o2
        ELSE IF la.exc # "" THEN o3
        ELSE o4

\* ET.tostring: the document as sent; an element whose text is None or ""
\* is written as an empty element.
tostring(doc) ==
    [root |-> "root",
     children |-> [i \in 1..Len(doc) |->
                     [tag |-> doc[i].tag,
                      text |-> IF doc[i].text = None THEN <<>>
                               ELSE doc[i].text[1]]]]

XMLResponse(content, status_code) ==
    [status |-> status_code, media_type |-> "application/xml",
     content |-> content]

construct_xml(city, response) ==
    IF response.body.fmt # "xml" THEN ServerError
    ELSE LET x  == response.body.xml
             nm == FindText(x, "location", "name")
         IN  IF nm.exc # "" THEN ServerError
             ELSE IF names_match(nm.v, city)
                  THEN XMLResponse(tostring(xml_try(xml_output_init, x)), 200)
             ELSE XMLResponse(tostring(xml_output_init), 200)

construct_response(city, output_format, response) ==
    IF output_format = T_json THEN construct_json(city, response)
    ELSE construct_xml(city, response)

----------------------------------------------------------------------------
\* get_data_from_weather_api

\* The URL and the query parameters of the GET.
request_url(city, output_format) ==
    [url |-> <<"https://api.weatherapi.com/v1/current.">> \o output_format,
     q |-> city, key |-> API_KEY]

NoUrl == [url |-> <<>>, q |-> <<>>, key |-> ""]

raise_for_status_5xx_only(status) == status >= 500 /\ status < 600

\* Response.raise_for_status raises HTTPError for 4xx and 5xx.
raise_for_status(status) == status >= 400 /\ status < 600

----------------------------------------------------------------------------
\* The endpoint as a state machine

VARIABLES
    pc,          \* "idle", "fetch" (inside session_object.get), "received", "done"
    request,     \* the request body as posted
    params,      \* params.dict() after validation
    url,         \* the upstream request built for this request
    total,       \* retries left in the Retry of the running GET
    attempts,    \* outbound calls made for this request
    all503,      \* every attempt of this request so far was answered 503
    last,        \* status answered to the latest attempt (0: none, no answer)
    upstream,    \* the response session_object.get returned
    constructed, \* construct_response was invoked for this request
    resp,        \* the response sent to the client
    served       \* requests answered so far

vars == <<pc, request, params, url, total, attempts, all503, last, upstream,
          constructed, resp, served>>

Cities  == {<<>>, T_Paris, T_paris}
Formats == {T_json, <<"J","S","O","N">>, <<"J","s","o","n">>, T_xml,
            <<"X","M","L">>, <<"c","s","v">>, <<>>}

NoParams == [city |-> <<>>, output_format |-> <<>>]

Init ==
    /\ pc = "idle"
    /\ request = NoParams
    /\ params = NoParams
    /\ url = NoUrl
    /\ total = retry_strategy.total
    /\ attempts = 0
    /\ all503 = TRUE
    /\ last = 0
    /\ upstream = NoOutcome
    /\ constructed = FALSE
    /\ resp = NoResponse
    /\ served = 0

\* POST /getCurrentWeather: the body is validated; a valid request enters
\* get_data_from_weather_api, which builds the URL and starts the GET.
get_weather_data_for_city(body) ==
    /\ pc \in {"idle", "done"}
    /\ served < MaxRequests
    /\ request' = body
    /\ attempts' = 0
    /\ all503' = TRUE
    /\ last' = 0
    /\ upstream' = NoOutcome
    /\ constructed' = FALSE
    /\ total' = retry_strategy.total
    /\ LET v == cityParameters(body)
       IN  IF v.ok
           THEN /\ params' = v.params
                /\ url' = request_url(v.params.city, v.params.output_format)
                /\ resp' = NoResponse
                /\ pc' = "fetch"
                /\ served' = served
           ELSE /\ params' = NoParams
                /\ url' = NoUrl
                /\ resp' = v.exc
                /\ pc' = "done"
                /\ served' = served + 1

\* One attempt of the GET inside session_object.get: the adapter sends the
\* request and either retries, gives up with an exception (which nothing
\* in api.py catches) or returns the response.
send(o) ==
    /\ pc = "fetch"
    /\ attempts' = attempts + 1
    /\ all503' = (all503 /\ o.kind = "response" /\ o.status = 503)
    /\ last' = o.status
    /\ UNCHANGED <<request, params, url, constructed>>
    /\ IF o.kind = "error" \/ is_retry(o.status, o.retry_after, total)
       THEN IF is_exhausted(increment(total))
            THEN /\ resp' = ServerError
                 /\ pc' = "done"
                 /\ served' = served + 1
                 /\ UNCHANGED <<total, upstream>>
            ELSE /\ total' = increment(total)
                 /\ UNCHANGED <<pc, resp, served, upstream>>
       ELSE /\ upstream' = o
            /\ pc' = "received"
            /\ UNCHANGED <<total, resp, served>>

\* After session_object.get returned: raise_for_status, then either the
\* HTTPException or construct_response.
get_data_from_weather_api ==
    /\ pc = "received"
    /\ pc' = "done"
    /\ served' = served + 1
    /\ UNCHANGED <<request, params, url, total, attempts, all503, last, upstream>>
    /\ IF raise_for_status(upstream.status)
       THEN /\ resp' = HTTPException(500, <<"Internal Server Error">>)
            /\ constructed' = FALSE
       ELSE /\ resp' = construct_response(params.city, params.output_format,
                                          upstream)
            /\ constructed' = TRUE

Next ==
    \/ /\ pc \in {"idle", "done"}
       /\ \E c \in Cities, f \in Formats :
              get_weather_data_for_city([city |-> c, output_format |-> f])
    \/ /\ pc = "fetch"
       /\ \E o \in Outcomes : send(o)
    \/ get_data_from_weather_api

Spec == Init /\ [][Next]_vars

----------------------------------------------------------------------------
\* Properties

\* The request as posted does not pass cityParameters.
Invalid(body) ==
    body.city = <<>> \/ lower(body.output_format) \notin {T_json, T_xml}

\* construct_response ran on the JSON path for an upstream 200.
JsonPath200 ==
    /\ pc = "done" /\ constructed
    /\ params.output_format = T_json
    /\ upstream.status = 200
    /\ upstream.body.fmt = "json"

\* The payload is a mapping whose current and location members, where
\* present, are mappings.
NestedMappings(j) ==
    j.isobj /\ \A k \in DOMAIN j.members : j.members[k].isobj

\* Field k1.k2 is absent from such a payload.
Absent(j, k1, k2) == Subscript2(j, k1, k2).exc = "KeyError"
Present(j, k1, k2) == Subscript2(j, k1, k2).exc = ""

\* construct_response ran on the XML path on a parsed upstream document.
XmlPath ==
    /\ pc = "done" /\ constructed
    /\ params.output_format = T_xml
    /\ upstream.body.fmt = "xml"

XmlHas(a, b) == FindText(upstream.body.xml, a, b).exc = ""
XmlText(a, b) == FindText(upstream.body.xml, a, b).v

AllFieldsEmpty(content) ==
    \A i \in 1..Len(content.children) : content.children[i].text = <<>>

\* C1 as stated: a request answered 503 every time makes no sixth upstream
\* attempt (no request makes more than 5).
C1_FiveAttempts == all503 => attempts <= 5

\* C1 amended: a request makes at most 6 upstream attempts (the first and
\* the 5 retries of Retry(total=5)); answered 503 every time it makes
\* exactly 6 and ends with 500.
C1_SixAttempts ==
    /\ attempts <= retry_strategy.total + 1
    /\ (all503 /\ attempts = retry_strategy.total + 1)
           => (pc = "done" /\ resp.status = 500 /\ ~constructed)
    /\ (pc = "done" /\ all503 /\ attempts >= 1)
           => (attempts = retry_strategy.total + 1 /\ resp.status = 500)

C1_Witness ==
    pc = "done" /\ all503 /\ attempts = 6 /\ last = 503 /\ resp.status = 500

\* C2 as stated: on the XML path a name that does not match, or a required
\* element that is absent, never fails the request: the answer is 200.
C2_XmlNeverRaises ==
    (/\ XmlPath
     /\ \/ ~XmlHas("location", "name")
        \/ ~XmlHas("current", "temp_c")
        \/ ~XmlHas("location", "lat")
        \/ ~XmlHas("location", "lon")
        \/ lower(XmlText("location", "name")) # lower(params.city))
        => (resp.status = 200 /\ resp.media_type = "application/xml")

C5_UpstreamFailureIs500 ==
    (pc = "done" /\ attempts >= 1 /\ last >= 400)
        => (resp.status = 500 /\ ~constructed)

C5_Witness ==
    /\ pc = "done" /\ attempts = 1 /\ last = 404
    /\ resp = HTTPException(500, <<"Internal Server Error">>)
    /\ ~constructed

\* C6: while a request that fails validation is handled, no upstream call
\* is made and the fetch step is never entered.
C6_InvalidNeverFetches ==
    Invalid(request) =>
        /\ attempts = 0
        /\ pc \in {"idle", "done"}
        /\ url = NoUrl
        /\ upstream = NoOutcome
        /\ ~constructed

C6_Witness ==
    /\ pc = "done" /\ served = 2
    /\ request.city = <<>> /\ request.output_format = T_json
    /\ resp.status = 400 /\ attempts = 0

\* C7: a request with an empty city, or with an output_format that
\* lowercased is neither "json" nor "xml", is answered 400.
C7_InvalidIs400 ==
    (pc = "done" /\ Invalid(request)) => resp.status = 400

C7_Witness ==
    /\ pc = "done"
    /\ request.city = T_Paris /\ request.output_format = <<"c", "s", "v">>
    /\ resp.status = 400

\* C8: output_format "json", upstream 200 with all five fields: status 200
\* and exactly the keys Weather (temp_c followed by " C"), Latitude (lat),
\* Longitude (lon) and City (name, a space, country).
C8_JsonComplete ==
    LET j == upstream.body.json
    IN  (/\ JsonPath200
         /\ Present(j, "current", "temp_c")
         /\ Present(j, "location", "lat") /\ Present(j, "location", "lon")
         /\ Present(j, "location", "name") /\ Present(j, "location", "country"))
        => /\ resp.status = 200
           /\ resp.media_type = "application/json"
           /\ DOMAIN resp.content = {"Weather", "Latitude", "Longitude", "City"}
           /\ resp.content.Weather =
                  JStr(str(j.members["current"].members["temp_c"]) \o <<" ", "C">>)
           /\ resp.content.Latitude = j.members["location"].members["lat"]
           /\ resp.content.Longitude = j.members["location"].members["lon"]
           /\ resp.content.City =
                  JStr(str(j.members["location"].members["name"]) \o <<" ">>
                       \o str(j.members["location"].members["country"]))
           /\ (j = FullJson) =>
                  resp.content =
                      [Weather |-> JStr(<<"2", "1", " ", "C">>),
                       Latitude |-> JFloat(1, 0), Longitude |-> JFloat(2, 0),
                       City |-> JStr(<<"P","a","r","i","s"," ",
                                       "F","r","a","n","c","e">>)]

C8_Witness ==
    /\ JsonPath200 /\ upstream.body.json = FullJson
    /\ resp.status = 200
    /\ resp.content.Weather = JStr(<<"2", "1", " ", "C">>)

\* C9: output_format "xml", an upstream document whose location/name is
\* the requested city (letter case ignored) and which has current/temp_c,
\* location/lat and location/lon: status 200 and a document root with
\* Temperature (temp_c followed by " C"), City (the upstream name),
\* Latitude (lat) and Longitude (lon).
C9_XmlComplete ==
    (/\ XmlPath
     /\ XmlHas("location", "name")
     /\ lower(XmlText("location", "name")) = lower(request.city)
     /\ XmlHas("current", "temp_c")
     /\ XmlHas("location", "lat") /\ XmlHas("location", "lon"))
        => /\ resp.status = 200
           /\ resp.media_type = "application/xml"
           /\ resp.content =
                  [root |-> "root",
                   children |->
                     <<[tag |-> "Temperature",
                        text |-> XmlText("current", "temp_c") \o <<" ", "C">>],
                       [tag |-> "City", text |-> XmlText("location", "name")],
                       [tag |-> "Latitude", text |-> XmlText("location", "lat")],
                       [tag |-> "Longitude", text |-> XmlText("location", "lon")]>>]

C9_Witness ==
    /\ XmlPath /\ upstream.body.xml = FullXml
    /\ request.city = T_paris
    /\ resp.status = 200
    /\ resp.content.children[1].text = <<"2", "1", ".", "0", " ", "C">>
    /\ resp.content.children[2].text = T_Paris

\* C10: a request whose output_format is "json" or "xml" in any letter
\* case gets the upstream URL, the status and the body of the request
\* with the lowercase output_format.
C10_CaseInsensitive ==
    \A F \in {T_json, T_xml} :
        (pc # "idle" /\ request.city # <<>> /\ lower(request.output_format) = F)
            => /\ url = request_url(request.city, F)
               /\ (pc = "done" /\ constructed)
                      => resp = construct_response(request.city, F, upstream)
               /\ (pc = "done" /\ ~constructed)
                      => resp = IF upstream = NoOutcome THEN ServerError
                                ELSE HTTPException(500, <<"Internal Server Error">>)

C10_Witness ==
    /\ pc = "done" /\ constructed
    /\ request.output_format = <<"J", "S", "O", "N">>
    /\ url.url = <<"https://api.weatherapi.com/v1/current.">> \o T_json
    /\ upstream.body.json = FullJson
    /\ resp.status = 200 /\ resp.media_type = "application/json"

====
